---- MODULE Spec2Model ----
(***************************************************************************)
(* A model of the purchase transaction of the pharmacy / mask API          *)
(* (src/app.py, purchase_mask) running against the tables declared in      *)
(* src/utils/db_models.py through the engine that                          *)
(* src/save_data_to_db.py, DatabaseManager.init_pool creates.              *)
(*                                                                         *)
(* The engine is created with isolation_level="AUTOCOMMIT": every          *)
(* statement a session sends is committed by the database on its own, and  *)
(* the session's commit and rollback send nothing the database acts on.    *)
(* The tables below are therefore the committed state every other request  *)
(* reads, and each statement of a purchase is one step on them.            *)
(*                                                                         *)
(* Money is DECIMAL(10, 2); the model counts it in whole units.            *)
(*                                                                         *)
(* A second specification, SpecHours, applies the opening-hours parser of  *)
(* src/utils/etl_modules.py to expressions drawn from a bounded set.  Text *)
(* is modelled as the sequence of its tokens: the words, the times and the *)
(* separators "/", "," and "-" that the parser splits on.                  *)
(*                                                                         *)
(* A third specification, SpecLoad, runs the ingestion of                  *)
(* src/save_data_to_db.py, main, over batches of pharmacy and user         *)
(* documents drawn from a bounded set, into tables that exist and start    *)
(* empty, once and then a second time.                                     *)
(***************************************************************************)
EXTENDS Integers, Sequences, FiniteSets, TLC

\* ------------------------------------------------------------------ bounds

\* Number of purchase requests the model runs (each may overlap the others).
NumCalls == 2

\* pharmacy_id values a request may carry: 1..MaxCashId.  The ingested rows
\* have the first ids, and purchases add rows with the next ones.
MaxCashId == 3

Calls == 1..NumCalls

\* Readings of the wall clock (datetime.now()): requests are dated with at
\* most NumCalls different ones.
Times == 1..NumCalls

\* Dates a query may name: the ingested record's and the clock's readings.
Dates == {0} \cup Times

\* datetime.now(): a reading no earlier than the last one taken.
Readings(last) == {t \in Times : t >= last}

\* ------------------------------------------------------- the stored catalog

\* Python's None, for a row db.get did not find.
None == -1

\* users after ingestion: id -> cash_balance.
InitUsers == (1 :> 5) @@ (2 :> 2)

\* pharmacies_mask after ingestion: id -> [name (the pharmacy), price].
\* Masks are never written after ingestion.
Masks == (1 :> [name |-> "A", price |-> 2]) @@ (2 :> [name |-> "B", price |-> 3])

\* pharmacies after ingestion: one row per opening interval, id -> pharmacy
\* name.  Pharmacy "A" has two intervals; the opening hours of "B" matched no
\* interval, so it has none.
Pharmacies == (1 :> "A") @@ (2 :> "A")

\* pharmacies_cash after ingestion: one row per pharmacy, sold_item NULL.
InitCash ==
    (1 :> [name |-> "A", sold_item |-> None, cash_balance |-> 1]) @@
    (2 :> [name |-> "B", sold_item |-> None, cash_balance |-> 0])

\* users_purchase_history after ingestion: one record, dated before the
\* clock's first reading.
InitLedger ==
    << [user_id |-> 1, pharmacies |-> 1, pharmacies_mask |-> 1,
        trn_amount |-> 2, trn_date |-> 0] >>

\* The query parameters a request may carry: every stored id, and for users
\* and masks (whose tables purchases never add to) one id that names no row.
UserIds == DOMAIN InitUsers \cup {Cardinality(DOMAIN InitUsers) + 1}

CashIds == 1..MaxCashId

MaskIds == DOMAIN Masks \cup {Cardinality(DOMAIN Masks) + 1}

\* ------------------------------------------------------------------- state

VARIABLES
    users,      \* table users: id -> cash_balance
    cash,       \* table pharmacies_cash: id -> [name, sold_item, cash_balance]
    cashSeq,    \* the serial that numbers pharmacies_cash rows (last value given)
    ledger,     \* table users_purchase_history, in insertion order
    now,        \* the last reading taken of the wall clock
    pc,         \* each request's position in purchase_mask
    req,        \* each request's query parameters
    prior,      \* each request's predecessors: the requests answered when it arrived
    loc,        \* each request's session: the objects it loaded, as it holds them
    writes,     \* each request's statements the database has executed
    outcome,    \* each request's response
    summary,    \* the last response of GET /transactions/summary
    coerces,    \* whether the driver sends an int bound to a String column as text
    openingHours,   \* pharmacies_info['openingHours'], as its tokens
    parsed,         \* what _parse_openingHours returned or raised for it
    docs,       \* the batch: pharmacies.json and users.json
    db,         \* the five tables the ingestion fills, and their serials
    run,        \* where main is: which load, which loop, which document
    snapshot,   \* the tables as the first load left them
    intents     \* what get_user_purchase_history yielded for the last user

purchaseVars == << users, cash, cashSeq, ledger, now, pc, req, prior, loc, writes,
                   outcome, summary, coerces >>

hoursVars == << openingHours, parsed >>

loadVars == << docs, db, run, snapshot, intents >>

vars == << purchaseVars, hoursVars, loadVars >>

\* The parser has not run.
NotParsed == [returned |-> FALSE, raised |-> "", data |-> << >>]

\* No expression is being parsed.
HoursIdle == openingHours = << >> /\ parsed = NotParsed

\* The five tables, empty, with serials that have given no id yet.
EmptyTables ==
    [pharmacies |-> << >>, pharmacies_cash |-> << >>, pharmacies_mask |-> << >>,
     users |-> << >>, users_purchase_history |-> << >>,
     serial |-> [t \in {"pharmacies", "pharmacies_cash", "pharmacies_mask", "users",
                        "users_purchase_history"} |-> 0]]

NotRunning == [n |-> 0, phase |-> "idle", i |-> 0, raised |-> ""]

\* No batch is being ingested.
LoadIdle ==
    /\ docs = [pharmacies_data |-> << >>, users_data |-> << >>]
    /\ db = EmptyTables
    /\ run = NotRunning
    /\ snapshot = EmptyTables
    /\ intents = << >>

NoReq == [user_id |-> 0, pharmacy_id |-> 0, mask_id |-> 0]

NoLoc == [user |-> None, pharmacy |-> None, mask |-> None, cash_entry |-> FALSE,
          trn_date |-> None]

\* The responses of a request a statement of which raised: the constraint the
\* database found broken, the parameter the driver refused, or a failed
\* storage call.  The handler catches none of them.
Errors == {"uix_pharmacies_cash", "uix_users_purchase_history",
           "fk_users_purchase_history", "DataError", "StorageError"}

\* The tables as ingestion left them and no request made, with a driver
\* that does (or does not) send an int for a String column as text.
PurchaseStart(driver_coerces) ==
    /\ users = InitUsers
    /\ cash = InitCash
    /\ cashSeq = Cardinality(DOMAIN InitCash)
    /\ ledger = InitLedger
    /\ now = 1
    /\ pc = [c \in Calls |-> "idle"]
    /\ req = [c \in Calls |-> NoReq]
    /\ prior = [c \in Calls |-> {}]
    /\ loc = [c \in Calls |-> NoLoc]
    /\ writes = [c \in Calls |-> {}]
    /\ outcome = [c \in Calls |-> "none"]
    /\ summary = [total_transactions |-> 0, total_value |-> 0]
    /\ coerces = driver_coerces

Init ==
    /\ \E driver_coerces \in BOOLEAN : PurchaseStart(driver_coerces)
    /\ HoursIdle
    /\ LoadIdle

\* ----------------------------------------------------- the handler's pieces

\* db.get(Model, id): the row's value, or None when no row has that id.
GetUserRow(id) == IF id \in DOMAIN users THEN users[id] ELSE None

GetCashRow(id) == IF id \in DOMAIN cash THEN cash[id].cash_balance ELSE None

GetMaskRow(id) == IF id \in DOMAIN Masks THEN Masks[id].price ELSE None

\* A check that forgets the mask.
NotFoundMaskUnchecked(user, pharmacy, mask) == user = None \/ pharmacy = None

\* if not user or not mask or not pharmacy: 404.  A loaded object is truthy.
NotFound(user, pharmacy, mask) == user = None \/ mask = None \/ pharmacy = None

\* A check that also rejects a balance equal to the price.
InsufficientBalanceOrEqual(user, mask) == user <= mask

\* A check that lets a purchase overdraw: the balance is compared with zero.
InsufficientBalanceOverdraw(user, mask) == user < 0

\* if user.cash_balance < mask.price: 400.
InsufficientBalance(user, mask) == user < mask

\* user.cash_balance -= mask.price
Debit(user, mask) == user - mask

\* select(PharmaciesCash).where(id == pharmacy_id, id == mask_id)
\* .scalar_one_or_none(): the row whose id equals both parameters.
CashEntryFound(pharmacy_id, mask_id) ==
    \E id \in DOMAIN cash : id = pharmacy_id /\ id = mask_id

\* cash_entry.cash_balance += mask.price, on the object the session holds.
Credit(balance, mask) == balance + mask

\* PharmaciesCash(name=pharmacy_id, sold_item=mask_id, cash_balance=mask.price);
\* name is a String column, so the id, where it is stored, is stored as text.
NewCash(pharmacy_id, mask_id, mask) ==
    [name |-> ToString(pharmacy_id), sold_item |-> mask_id, cash_balance |-> mask]

\* A record whose amount is taken from the wrong parameter.
NewTrnAmountFromId(user_id, pharmacy_id, mask_id, mask, date) ==
    [user_id |-> user_id, pharmacies |-> pharmacy_id, pharmacies_mask |-> mask_id,
     trn_amount |-> mask_id, trn_date |-> date]

\* UsersPurchaseHistory(user_id, pharmacies, pharmacies_mask, trn_amount, trn_date)
NewTrn(user_id, pharmacy_id, mask_id, mask, date) ==
    [user_id |-> user_id, pharmacies |-> pharmacy_id, pharmacies_mask |-> mask_id,
     trn_amount |-> mask, trn_date |-> date]

\* uix_pharmacies_cash: UniqueConstraint(name, sold_item, cash_balance).
\* A NULL sold_item never equals another, so only rows with a sold_item clash.
CashUnique(row) ==
    \A id \in DOMAIN cash :
        ~(/\ cash[id].name = row.name
          /\ cash[id].sold_item # None /\ cash[id].sold_item = row.sold_item
          /\ cash[id].cash_balance = row.cash_balance)

\* uix_users_purchase_history: UniqueConstraint over all five columns.
LedgerUnique(rec) == \A i \in 1..Len(ledger) : ledger[i] # rec

\* The foreign keys of users_purchase_history: users.id, pharmacies.id,
\* pharmacies_mask.id.
LedgerForeignKeys(rec) ==
    /\ rec.user_id \in DOMAIN users
    /\ rec.pharmacies \in DOMAIN Pharmacies
    /\ rec.pharmacies_mask \in DOMAIN Masks

\* ----------------------------------------------------------- purchase_mask

\* The handler is left: the response is `response`, and the session closes.
Return(c, response) ==
    /\ pc' = [pc EXCEPT ![c] = "done"]
    /\ outcome' = [outcome EXCEPT ![c] = response]
    /\ loc' = [loc EXCEPT ![c] = NoLoc]

\* A request arrives with its three query parameters and opens its session.
\* Requests are numbered in their order of arrival.
BeginPurchase(c, user_id, pharmacy_id, mask_id) ==
    /\ pc[c] = "idle"
    /\ \A b \in Calls : b < c => pc[b] # "idle"
    /\ pc' = [pc EXCEPT ![c] = "get_user"]
    /\ req' = [req EXCEPT ![c] =
                 [user_id |-> user_id, pharmacy_id |-> pharmacy_id, mask_id |-> mask_id]]
    /\ prior' = [prior EXCEPT ![c] = {b \in Calls : pc[b] = "done"}]
    /\ UNCHANGED << users, cash, cashSeq, ledger, now, loc, writes, outcome, summary,
                    coerces, hoursVars, loadVars >>

\* user = await db.get(Users, user_id)
GetUser(c) ==
    /\ pc[c] = "get_user"
    /\ loc' = [loc EXCEPT ![c].user = GetUserRow(req[c].user_id)]
    /\ pc' = [pc EXCEPT ![c] = "get_pharmacy"]
    /\ UNCHANGED << users, cash, cashSeq, ledger, now, req, prior, writes, outcome,
                    summary, coerces, hoursVars, loadVars >>

\* pharmacy = await db.get(PharmaciesCash, pharmacy_id)
GetPharmacy(c) ==
    /\ pc[c] = "get_pharmacy"
    /\ loc' = [loc EXCEPT ![c].pharmacy = GetCashRow(req[c].pharmacy_id)]
    /\ pc' = [pc EXCEPT ![c] = "get_mask"]
    /\ UNCHANGED << users, cash, cashSeq, ledger, now, req, prior, writes, outcome,
                    summary, coerces, hoursVars, loadVars >>

\* mask = await db.get(PharmaciesMask, mask_id), then, with no await between,
\* the two checks and the debit of the loaded user object.
GetMask(c) ==
    /\ pc[c] = "get_mask"
    /\ LET mask == GetMaskRow(req[c].mask_id)
           user == loc[c].user
       IN  IF NotFound(user, loc[c].pharmacy, mask)
           THEN Return(c, "NotFound")
           ELSE IF InsufficientBalance(user, mask)
           THEN Return(c, "InsufficientBalance")
           ELSE /\ outcome' = outcome
                /\ pc' = [pc EXCEPT ![c] = "flush_user"]
                /\ loc' = [loc EXCEPT ![c].mask = mask, ![c].user = Debit(user, mask)]
    /\ UNCHANGED << users, cash, cashSeq, ledger, now, req, prior, writes, summary,
                    coerces, hoursVars, loadVars >>

\* await db.execute(cash_stmt) autoflushes first: the changed user object is
\* written with the value the session holds, UPDATE users SET cash_balance =
\* <value> WHERE id = <user_id>.  An attribute set to the value it had is not
\* written.
FlushUser(c) ==
    /\ pc[c] = "flush_user"
    /\ IF loc[c].mask # 0
       THEN /\ users' = [users EXCEPT ![req[c].user_id] = loc[c].user]
            /\ writes' = [writes EXCEPT ![c] = @ \cup {"update_users"}]
       ELSE UNCHANGED << users, writes >>
    /\ pc' = [pc EXCEPT ![c] = "select_cash"]
    /\ UNCHANGED << cash, cashSeq, ledger, now, req, prior, loc, outcome, summary,
                    coerces, hoursVars, loadVars >>

\* The select of cash_stmt itself, then, with no await between, the credit of
\* the found object (the one db.get loaded, with the balance it was loaded
\* with) or the new PharmaciesCash, and the new UsersPurchaseHistory dated
\* datetime.now().  Leaving db.begin() then commits, which flushes the
\* pharmacies_cash statement and after it the users_purchase_history one.
SelectCash(c) ==
    /\ pc[c] = "select_cash"
    /\ \E t \in Readings(now) :
        /\ now' = t
        /\ IF CashEntryFound(req[c].pharmacy_id, req[c].mask_id)
           THEN loc' = [loc EXCEPT ![c].pharmacy = Credit(@, loc[c].mask),
                                   ![c].cash_entry = TRUE,
                                   ![c].trn_date = t]
           ELSE loc' = [loc EXCEPT ![c].cash_entry = FALSE,
                                   ![c].trn_date = t]
    /\ pc' = [pc EXCEPT ![c] = "flush_cash"]
    /\ UNCHANGED << users, cash, cashSeq, ledger, req, prior, writes, outcome, summary,
                    coerces, hoursVars, loadVars >>

\* The flush at commit, UPDATE pharmacies_cash SET cash_balance = <value>
\* WHERE id = <pharmacy_id>, with the value the session holds.
UpdateCash(c) ==
    /\ pc[c] = "flush_cash"
    /\ loc[c].cash_entry
    /\ IF loc[c].mask # 0
       THEN /\ cash' = [cash EXCEPT ![req[c].pharmacy_id].cash_balance = loc[c].pharmacy]
            /\ writes' = [writes EXCEPT ![c] = @ \cup {"update_cash"}]
       ELSE UNCHANGED << cash, writes >>
    /\ pc' = [pc EXCEPT ![c] = "flush_trn"]
    /\ UNCHANGED << users, cashSeq, ledger, now, req, prior, loc, outcome, summary,
                    coerces, hoursVars, loadVars >>

\* The flush at commit, INSERT INTO pharmacies_cash.  The row's name is the
\* int pharmacy_id, bound to a String column: the driver either refuses it
\* before anything is sent, or sends its text.  Then the serial gives the row
\* its id before the unique constraint is checked.  A statement that raises
\* leaves the handler; the session's rollback undoes nothing already executed.
InsertCash(c) ==
    /\ pc[c] = "flush_cash"
    /\ ~loc[c].cash_entry
    /\ LET row == NewCash(req[c].pharmacy_id, req[c].mask_id, loc[c].mask)
       IN  IF ~coerces
           THEN /\ Return(c, "DataError")
                /\ UNCHANGED << cash, cashSeq, writes >>
           ELSE IF ~CashUnique(row)
           THEN /\ Return(c, "uix_pharmacies_cash")
                /\ cashSeq' = cashSeq + 1
                /\ UNCHANGED << cash, writes >>
           ELSE /\ cash' = cash @@ ((cashSeq + 1) :> row)
                /\ cashSeq' = cashSeq + 1
                /\ writes' = [writes EXCEPT ![c] = @ \cup {"insert_cash"}]
                /\ pc' = [pc EXCEPT ![c] = "flush_trn"]
                /\ UNCHANGED << loc, outcome >>
    /\ UNCHANGED << users, ledger, now, req, prior, summary, coerces, hoursVars, loadVars >>

\* The flush at commit, INSERT INTO users_purchase_history, the last statement:
\* after it the handler returns {"message": "Purchase successful"}.
InsertTrn(c) ==
    /\ pc[c] = "flush_trn"
    /\ LET rec == NewTrn(req[c].user_id, req[c].pharmacy_id, req[c].mask_id,
                         loc[c].mask, loc[c].trn_date)
       IN  IF ~LedgerUnique(rec)
           THEN /\ Return(c, "uix_users_purchase_history")
                /\ UNCHANGED << ledger, writes >>
           ELSE IF ~LedgerForeignKeys(rec)
           THEN /\ Return(c, "fk_users_purchase_history")
                /\ UNCHANGED << ledger, writes >>
           ELSE /\ ledger' = Append(ledger, rec)
                /\ writes' = [writes EXCEPT ![c] = @ \cup {"insert_trn"}]
                /\ Return(c, "ok")
    /\ UNCHANGED << users, cash, cashSeq, now, req, prior, summary, coerces, hoursVars,
                    loadVars >>

\* A storage call that fails (the connection drops): the exception leaves
\* the handler at whichever await it was in.
StorageFault(c) ==
    /\ pc[c] \in {"get_user", "get_pharmacy", "get_mask", "flush_user", "select_cash",
                  "flush_cash", "flush_trn"}
    /\ Return(c, "StorageError")
    /\ UNCHANGED << users, cash, cashSeq, ledger, now, req, prior, writes, summary,
                    coerces, hoursVars, loadVars >>

\* ------------------------------------------------------------- read routes

\* func.sum / func.count over the records a query selects.
RECURSIVE SumAmount(_)
SumAmount(recs) ==
    IF recs = << >> THEN 0 ELSE Head(recs).trn_amount + SumAmount(Tail(recs))

Between(recs, start_date, end_date) ==
    SelectSeq(recs, LAMBDA r : start_date <= r.trn_date /\ r.trn_date <= end_date)

\* GET /transactions/summary: the count and the total of the records dated
\* within [start_date, end_date]; it writes nothing.
TransactionSummary(start_date, end_date) ==
    /\ summary' = [total_transactions |-> Len(Between(ledger, start_date, end_date)),
                   total_value |-> SumAmount(Between(ledger, start_date, end_date))]
    /\ UNCHANGED << users, cash, cashSeq, ledger, now, pc, req, prior, loc, writes,
                    outcome, coerces, hoursVars, loadVars >>

Next ==
    \/ \E c \in Calls, u \in UserIds, p \in CashIds, m \in MaskIds : BeginPurchase(c, u, p, m)
    \/ \E c \in Calls : GetUser(c)
    \/ \E c \in Calls : GetPharmacy(c)
    \/ \E c \in Calls : GetMask(c)
    \/ \E c \in Calls : FlushUser(c)
    \/ \E c \in Calls : SelectCash(c)
    \/ \E c \in Calls : UpdateCash(c)
    \/ \E c \in Calls : InsertCash(c)
    \/ \E c \in Calls : InsertTrn(c)
    \/ \E c \in Calls : StorageFault(c)
    \/ \E start_date \in Dates, end_date \in Dates :
           TransactionSummary(start_date, end_date)

Spec == Init /\ [][Next]_vars

\* ------------------------------------------------- _parse_openingHours

\* days_map, the canonical ordering of the days.
days_map == << "Mon", "Tue", "Wed", "Thu", "Fri", "Sat", "Sun" >>

\* The tokens \d{2}:\d{2} matches.
TimeTokens == {"08:00", "12:00", "17:00"}

\* The elements of a sequence.
Range(s) == {s[i] : i \in 1..Len(s)}

\* str.split(sep): the pieces between the separators, empty ones included.
RECURSIVE Split(_, _)
Split(s, sep) ==
    IF sep \notin Range(s) THEN << s >>
    ELSE LET i == CHOOSE k \in 1..Len(s) : s[k] = sep /\ \A j \in 1..(k - 1) : s[j] # sep
         IN  << SubSeq(s, 1, i - 1) >> \o Split(SubSeq(s, i + 1, Len(s)), sep)

\* str.strip() of a piece: its words as one string, a space between two.
RECURSIVE Strip(_)
Strip(part) ==
    IF part = << >> THEN ""
    ELSE IF Len(part) = 1 THEN part[1]
    ELSE part[1] \o " " \o Strip(Tail(part))

\* days_map.index(day), 0 where it raises ValueError.
Index(day) ==
    IF \E i \in 1..Len(days_map) : days_map[i] = day
    THEN CHOOSE i \in 1..Len(days_map) : days_map[i] = day
    ELSE 0

\* re.match(r"(.*?)(\d{2}:\d{2}) - (\d{2}:\d{2})", entry): the place of the
\* first "time - time" in the entry, whatever precedes or follows it; 0 when
\* there is none.
Match(entry) ==
    LET at(i) == /\ entry[i] \in TimeTokens
                 /\ entry[i + 1] = "-"
                 /\ entry[i + 2] \in TimeTokens
        places == {i \in 1..(Len(entry) - 2) : at(i)}
    IN  IF places = {} THEN 0
        ELSE CHOOSE i \in places : \A j \in places : i <= j

\* The days one part of days_part.split(",") stands for: a range by its
\* endpoints' places in days_map (a slice, empty when the end precedes the
\* start), anything else as the day it is.  A range that does not split in
\* two, or an endpoint days_map lacks, raises ValueError.
DaysOfPartExclusiveEnd(part) ==
    IF "-" \in Range(part)
    THEN LET sides == Split(part, "-")
         IN  IF Len(sides) # 2 THEN [raised |-> "ValueError", days |-> << >>]
             ELSE LET start_idx == Index(Strip(sides[1]))
                      end_idx == Index(Strip(sides[2]))
                  IN  IF start_idx = 0 \/ end_idx = 0
                      THEN [raised |-> "ValueError", days |-> << >>]
                      ELSE [raised |-> "",
                            days |-> IF start_idx < end_idx
                                     THEN SubSeq(days_map, start_idx, end_idx - 1)
                                     ELSE << >>]
    ELSE [raised |-> "", days |-> << Strip(part) >>]

DaysOfPart(part) ==
    IF "-" \in Range(part)
    THEN LET sides == Split(part, "-")
         IN  IF Len(sides) # 2 THEN [raised |-> "ValueError", days |-> << >>]
             ELSE LET start_idx == Index(Strip(sides[1]))
                      end_idx == Index(Strip(sides[2]))
                  IN  IF start_idx = 0 \/ end_idx = 0
                      THEN [raised |-> "ValueError", days |-> << >>]
                      ELSE [raised |-> "",
                            days |-> IF start_idx <= end_idx
                                     THEN SubSeq(days_map, start_idx, end_idx)
                                     ELSE << >>]
    ELSE [raised |-> "", days |-> << Strip(part) >>]

\* The loop over days_part.split(","), extending days part by part.
RECURSIVE DaysOf(_)
DaysOf(parts) ==
    IF parts = << >> THEN [raised |-> "", days |-> << >>]
    ELSE LET first == DaysOfPart(Head(parts))
             rest == DaysOf(Tail(parts))
         IN  IF first.raised # "" THEN first
             ELSE IF rest.raised # "" THEN rest
             ELSE [raised |-> "", days |-> first.days \o rest.days]

\* The rows one entry appends: none when the pattern does not match it.
RowsOfEntry(entry) ==
    LET m == Match(entry)
    IN  IF m = 0 THEN [raised |-> "", data |-> << >>]
        ELSE LET days == DaysOf(Split(SubSeq(entry, 1, m - 1), ","))
             IN  IF days.raised # "" THEN [raised |-> days.raised, data |-> << >>]
                 ELSE [raised |-> "",
                       data |-> [i \in 1..Len(days.days) |->
                                    [opening_day |-> days.days[i],
                                     open_time |-> entry[m],
                                     close_time |-> entry[m + 2]]]]

\* The loop over the entries; an exception leaves it and returns no data.
RECURSIVE RowsOf(_)
RowsOf(entries) ==
    IF entries = << >> THEN [raised |-> "", data |-> << >>]
    ELSE LET first == RowsOfEntry(Head(entries))
             rest == RowsOf(Tail(entries))
         IN  IF first.raised # "" THEN first
             ELSE IF rest.raised # "" THEN rest
             ELSE [raised |-> "", data |-> first.data \o rest.data]

\* _parse_openingHours
parse_openingHours(text) ==
    LET result == RowsOf(Split(text, "/"))
    IN  [returned |-> result.raised = "", raised |-> result.raised, data |-> result.data]

\* The expressions the parser is applied to.  A part of a day list is a day
\* or a range; a day list is some parts with commas between; an entry is a
\* day list followed by "time - time" or by a word; an expression is some
\* entries with "/" between.  "Thur" is a day token days_map lacks.
MaxParts == 2
MaxEntries == 2

SingleDays == {"Sat", "Sun", "Thur"}
RangeEnds == {"Mon", "Fri", "Thur"}
Parts == {<< d >> : d \in SingleDays} \cup {<< a, "-", b >> : a, b \in RangeEnds}

Hours == {<< "08:00", "-", "17:00" >>, << "08:00", "-", "12:00" >>,
          << "17:00", "-", "08:00" >>, << "closed" >>}

\* sep.join(pieces)
RECURSIVE Join(_, _)
Join(pieces, sep) ==
    IF Len(pieces) = 1 THEN pieces[1]
    ELSE pieces[1] \o << sep >> \o Join(Tail(pieces), sep)

Entries ==
    {Join(ps, ",") \o h : ps \in UNION {[1..n -> Parts] : n \in 1..MaxParts}, h \in Hours}

\* One pharmacy document is given to the parser.
HoursInit ==
    /\ PurchaseStart(FALSE)
    /\ \E n \in 1..MaxEntries : \E es \in [1..n -> Entries] : openingHours = Join(es, "/")
    /\ parsed = NotParsed
    /\ LoadIdle

\* await self._parse_openingHours()
ParseOpeningHours ==
    /\ parsed = NotParsed
    /\ parsed' = parse_openingHours(openingHours)
    /\ UNCHANGED << purchaseVars, openingHours, loadVars >>

HoursNext == ParseOpeningHours

SpecHours == HoursInit /\ [][HoursNext]_vars

\* -------------------------------------------------------- _parse_mask_info

\* None where the value is text (the model keeps None == -1 for numbers).
NoneText == "None"

\* The tokens \d+ matches, and int() of each.
NumberTokens == {"10"}
IntOf(token) == CASE token = "10" -> 10

\* re.match(r"^(.*?)\s*\((.*?)\)\s*\((\d+) per pack\)$", mask_string): the
\* text must end in ") (<digits> per pack)", with a "(" somewhere before; the
\* name is what precedes the first such "(", the color what lies between.
MaskMatch(mask_string) ==
    LET n == Len(mask_string)
        opens == {i \in 1..(n - 5) : mask_string[i] = "("}
    IN  IF /\ n >= 6
           /\ mask_string[n] = ")" /\ mask_string[n - 1] = "per pack"
           /\ mask_string[n - 2] \in NumberTokens
           /\ mask_string[n - 3] = "(" /\ mask_string[n - 4] = ")"
           /\ opens # {}
        THEN CHOOSE i \in opens : \A j \in opens : i <= j
        ELSE 0

\* _parse_mask_info(mask_info, pharmacy_name), with the price a dict carries
\* (None for the bare string of a purchase history).
parse_mask_info(mask_string, mask_price, pharmacy_name) ==
    LET m == MaskMatch(mask_string)
        n == Len(mask_string)
    IN  IF m = 0
        THEN [raised |-> "ValueError", name |-> NoneText, mask_name |-> NoneText,
              mask_color |-> NoneText, pack_quantity |-> None, price |-> None]
        ELSE [raised |-> "", name |-> pharmacy_name,
              mask_name |-> Strip(SubSeq(mask_string, 1, m - 1)),
              mask_color |-> Strip(SubSeq(mask_string, m + 1, n - 5)),
              pack_quantity |-> IntOf(mask_string[n - 2]),
              price |-> mask_price]

\* ------------------------------------------------------------ insert_data

\* The columns of each table's UniqueConstraint.
Uix(table) ==
    CASE table = "pharmacies" -> {"name", "opening_day", "open_time", "close_time"}
      [] table = "pharmacies_cash" -> {"name", "sold_item", "cash_balance"}
      [] table = "pharmacies_mask" ->
             {"name", "mask_name", "mask_color", "pack_quantity", "price"}
      [] table = "users" -> {"name", "cash_balance"}
      [] table = "users_purchase_history" ->
             {"user_id", "pharmacies", "pharmacies_mask", "trn_amount", "trn_date"}

\* The database finds a stored row equal to the new one on every column of
\* the constraint.  A NULL equals nothing: sold_item, which no ingested
\* document sets, is NULL in every pharmacies_cash row.
Duplicate(rows, table, data) ==
    \E k \in 1..Len(rows) :
        \A col \in Uix(table) :
            /\ rows[k][col] = data[col]
            /\ ~(col = "sold_item" /\ data[col] = None)

\* insert_data(model_class, data): the INSERT takes the next id of the
\* table's serial; a row the constraint refuses raises, and insert_data logs
\* the exception and returns.
insert_data(tables, table, data) ==
    LET id == tables.serial[table] + 1
        stored == [tables EXCEPT !.serial[table] = id]
    IN  IF Duplicate(tables[table], table, data) THEN stored
        ELSE [stored EXCEPT ![table] = Append(@, [id |-> id] @@ data)]

\* One insert_data call per row, in order.
RECURSIVE InsertAll(_, _, _)
InsertAll(tables, table, rows) ==
    IF rows = << >> THEN tables
    ELSE InsertAll(insert_data(tables, table, Head(rows)), table, Tail(rows))

\* ------------------------------------------- Insert_pharmacies_data_to_db

\* get_mask_info: _parse_mask_info of every mask line, in a list
\* comprehension, so one refused line raises for the whole list.
get_mask_info(pharmacy) ==
    [k \in 1..Len(pharmacy.masks) |->
        parse_mask_info(pharmacy.masks[k].name, pharmacy.masks[k].price,
                        pharmacy.name)]

\* The last loop of the body: one insert per parsed mask line.
insert_masks(tables, masks) ==
    IF \E k \in 1..Len(masks) : masks[k].raised # ""
    THEN [tables |-> tables, raised |-> "ValueError"]
    ELSE [tables |-> InsertAll(tables, "pharmacies_mask",
                         [k \in 1..Len(masks) |->
                             [name |-> masks[k].name,
                              mask_name |-> masks[k].mask_name,
                              mask_color |-> masks[k].mask_color,
                              pack_quantity |-> masks[k].pack_quantity,
                              price |-> masks[k].price]]),
          raised |-> ""]

\* The cash row of the pharmacy, then its masks.
insert_cash(tables, pharmacy) ==
    insert_masks(insert_data(tables, "pharmacies_cash",
                     [name |-> pharmacy.name, sold_item |-> None,
                      cash_balance |-> pharmacy.cashBalance]),
                 get_mask_info(pharmacy))

\* The body of the loop for one pharmacy document: the opening rows, the
\* cash row, then the masks.  An exception of a parser is caught nowhere
\* and leaves the function.
insert_pharmacy(tables, pharmacy) ==
    LET hours == parse_openingHours(pharmacy.openingHours)
    IN  IF hours.raised # "" THEN [tables |-> tables, raised |-> hours.raised]
        ELSE insert_cash(InsertAll(tables, "pharmacies",
                             [k \in 1..Len(hours.data) |->
                                 [name |-> pharmacy.name] @@ hours.data[k]]),
                         pharmacy)

\* ------------------------------------------- get_user_purchase_history

\* None where the value is the dict of a parsed mask.
NoneMask == [name |-> NoneText, mask_name |-> NoneText, mask_color |-> NoneText,
             pack_quantity |-> None]

\* datetime.strptime(transactionDate, "%Y-%m-%d %H:%M:%S"), as a count of days.
strptime(text) == CASE text = "2021-01-04 15:18:51" -> 4 [] text = "2021-01-05 09:00:00" -> 5

\* insert_table_schema as first built: the user's name and four None.
Placeholder(user_name) ==
    [user_id |-> user_name, pharmacies |-> NoneText, pharmacies_mask |-> NoneMask,
     trn_amount |-> None, trn_date |-> None]

\* The rows the generator yields for the entries of a non-empty list, up to
\* the entry whose maskName the mask parser refuses.
RECURSIVE Yield(_, _)
Yield(user_name, histories) ==
    IF histories = << >> THEN [rows |-> << >>, raised |-> ""]
    ELSE LET purchase_history == Head(histories)
             mask_info == parse_mask_info(purchase_history.maskName, None,
                                          purchase_history.pharmacyName)
             rest == Yield(user_name, Tail(histories))
         IN  IF mask_info.raised # "" THEN [rows |-> << >>, raised |-> mask_info.raised]
             ELSE [rows |-> << [user_id |-> user_name,
                                pharmacies |-> purchase_history.pharmacyName,
                                pharmacies_mask |->
                                    [name |-> mask_info.name,
                                     mask_name |-> mask_info.mask_name,
                                     mask_color |-> mask_info.mask_color,
                                     pack_quantity |-> mask_info.pack_quantity],
                                trn_amount |-> purchase_history.transactionAmount,
                                trn_date |-> strptime(purchase_history.transactionDate)]
                             >> \o rest.rows,
                   raised |-> rest.raised]

\* get_user_purchase_history: one row per entry, or the placeholder alone.
get_user_purchase_history(user) ==
    IF Len(user.purchaseHistories) > 0
    THEN Yield(user.name, user.purchaseHistories)
    ELSE [rows |-> << Placeholder(user.name) >>, raised |-> ""]

\* ------------------------------------------------ Insert_users_data_to_db

\* result.scalars().first(): the id of the first of the rows the filter
\* found (given by their positions), 0 for None.  Rows come back in the
\* order they were inserted.
First(rows, found) ==
    IF found = {} THEN 0
    ELSE rows[CHOOSE k \in found : \A j \in found : k <= j].id

\* select(model).filter(model.name == name).
ByName(rows, name) == {k \in 1..Len(rows) : rows[k].name = name}

\* select(PharmaciesMask).filter(...) on mask_name, mask_color and
\* pack_quantity of mask_data.
ByMask(rows, mask_data) ==
    {k \in 1..Len(rows) :
        /\ rows[k].mask_name = mask_data.mask_name
        /\ rows[k].mask_color = mask_data.mask_color
        /\ rows[k].pack_quantity = mask_data.pack_quantity}

\* The body of `async for history in purchase_history`, row after row: the
\* three lookups by name, each raising when it finds nothing, then the
\* insert of the resolved record.
RECURSIVE insert_histories(_, _)
insert_histories(tables, rows) ==
    IF rows = << >> THEN [tables |-> tables, raised |-> ""]
    ELSE LET history == Head(rows)
             user == First(tables.users, ByName(tables.users, history.user_id))
             pharmacy == First(tables.pharmacies,
                               ByName(tables.pharmacies, history.pharmacies))
             pharmacy_mask == First(tables.pharmacies_mask,
                                    ByMask(tables.pharmacies_mask,
                                           history.pharmacies_mask))
         IN  IF user = 0 THEN [tables |-> tables, raised |-> "User not found"]
             ELSE IF pharmacy = 0 THEN [tables |-> tables, raised |-> "Pharmacy not found"]
             ELSE IF history.pharmacies_mask = NoneMask
             THEN [tables |-> tables, raised |-> "TypeError"]
             ELSE IF pharmacy_mask = 0 THEN [tables |-> tables, raised |-> "Mask not found"]
             ELSE insert_histories(
                      insert_data(tables, "users_purchase_history",
                          [user_id |-> user, pharmacies |-> pharmacy,
                           pharmacies_mask |-> pharmacy_mask,
                           trn_amount |-> history.trn_amount,
                           trn_date |-> history.trn_date]),
                      Tail(rows))

\* The body of the loop for one user document.  The generator is consumed
\* row by row, so the rows before a refused maskName are inserted before its
\* ValueError leaves the function.
insert_user(tables, user) ==
    LET stored == insert_data(tables, "users",
                      [name |-> user.name, cash_balance |-> user.cashBalance])
        purchase_history == get_user_purchase_history(user)
        resolved == insert_histories(stored, purchase_history.rows)
    IN  IF resolved.raised # "" THEN resolved
        ELSE [tables |-> resolved.tables, raised |-> purchase_history.raised]

\* ------------------------------------------------------------------- main

\* The batches the ingestion is run on.  A pharmacy document has opening
\* hours that parse or that raise, and some mask lines, well formed or not;
\* a user document has some purchase histories, of a well-formed mask or not.
NumDocs == 2
MaxMasks == 2
MaxHistories == 2
NumLoads == 2

PharmacyNames == << "A", "B", "C" >>
UserNames == << "Ada", "Bob", "Cy" >>

GoodMask == << "Smile", "(", "black", ")", "(", "10", "per pack", ")" >>
BadMask == << "bad", "format" >>

HoursTexts == {<< "Sat", "08:00", "-", "17:00" >>,
               << "Mon", "-", "Thur", "08:00", "-", "17:00" >>}
MaskLines == {[name |-> GoodMask, price |-> 2], [name |-> BadMask, price |-> 2]}
HistoryEntries ==
    {[pharmacyName |-> "A", maskName |-> GoodMask, transactionAmount |-> 2,
      transactionDate |-> "2021-01-04 15:18:51"],
     [pharmacyName |-> "A", maskName |-> GoodMask, transactionAmount |-> 2,
      transactionDate |-> "2021-01-05 09:00:00"],
     [pharmacyName |-> "A", maskName |-> BadMask, transactionAmount |-> 2,
      transactionDate |-> "2021-01-04 15:18:51"]}

\* The sequences of at most n elements of S.
SeqUpTo(S, n) == UNION {[1..k -> S] : k \in 0..n}

\* json.load of the two files, and tables that exist and are empty.
LoadInit ==
    /\ PurchaseStart(FALSE)
    /\ HoursIdle
    /\ \E hours \in [1..NumDocs -> HoursTexts],
          masks \in [1..NumDocs -> SeqUpTo(MaskLines, MaxMasks)],
          histories \in [1..NumDocs -> SeqUpTo(HistoryEntries, MaxHistories)] :
           docs = [pharmacies_data |->
                       [k \in 1..NumDocs |->
                           [name |-> PharmacyNames[k], openingHours |-> hours[k],
                            cashBalance |-> 1, masks |-> masks[k]]],
                   users_data |->
                       [k \in 1..NumDocs |->
                           [name |-> UserNames[k], cashBalance |-> 5,
                            purchaseHistories |-> histories[k]]]]
    /\ db = EmptyTables
    /\ run = NotRunning
    /\ snapshot = EmptyTables
    /\ intents = << >>

\* main is run (python save_data_to_db.py), for the first time or again.
StartLoad ==
    /\ run.phase \in {"idle", "done", "aborted"}
    /\ run.n < NumLoads
    /\ run' = [n |-> run.n + 1, phase |-> "pharmacies", i |-> 1, raised |-> ""]
    /\ snapshot' = IF run.n = 1 THEN db ELSE snapshot
    /\ UNCHANGED << purchaseVars, hoursVars, docs, db, intents >>

\* One turn of `for pharmacy in pharmacies_data`.
InsertPharmacy ==
    /\ run.phase = "pharmacies"
    /\ run.i <= Len(docs.pharmacies_data)
    /\ \E done \in {insert_pharmacy(db, docs.pharmacies_data[run.i])} :
           /\ db' = done.tables
           /\ run' = IF done.raised # ""
                     THEN [run EXCEPT !.phase = "aborted", !.raised = done.raised]
                     ELSE [run EXCEPT !.i = @ + 1]
    /\ UNCHANGED << purchaseVars, hoursVars, docs, snapshot, intents >>

\* Insert_pharmacies_data_to_db returns and Insert_users_data_to_db begins.
StartUsers ==
    /\ run.phase = "pharmacies"
    /\ run.i > Len(docs.pharmacies_data)
    /\ run' = [run EXCEPT !.phase = "users", !.i = 1]
    /\ UNCHANGED << purchaseVars, hoursVars, docs, db, snapshot, intents >>

\* One turn of `for user in users_data`.
InsertUser ==
    /\ run.phase = "users"
    /\ run.i <= Len(docs.users_data)
    /\ \E done \in {insert_user(db, docs.users_data[run.i])} :
           /\ db' = done.tables
           /\ run' = IF done.raised # ""
                     THEN [run EXCEPT !.phase = "aborted", !.raised = done.raised]
                     ELSE [run EXCEPT !.i = @ + 1]
    /\ intents' = get_user_purchase_history(docs.users_data[run.i]).rows
    /\ UNCHANGED << purchaseVars, hoursVars, docs, snapshot >>

\* main returns.
FinishLoad ==
    /\ run.phase = "users"
    /\ run.i > Len(docs.users_data)
    /\ run' = [run EXCEPT !.phase = "done"]
    /\ UNCHANGED << purchaseVars, hoursVars, docs, db, snapshot, intents >>

LoadNext ==
    \/ StartLoad
    \/ InsertPharmacy
    \/ StartUsers
    \/ InsertUser
    \/ FinishLoad

SpecLoad == LoadInit /\ [][LoadNext]_vars

\* ------------------------------------------------------ what the claims use

\* No purchase is in flight.
Quiescent == \A c \in Calls : pc[c] \in {"idle", "done"}

\* The purchases that ran one after the other: of any two, one was answered
\* before the other arrived.
Sequential ==
    \A c \in Calls, d \in Calls :
        (c # d /\ pc[c] # "idle" /\ pc[d] # "idle") => (c \in prior[d] \/ d \in prior[c])

\* Every purchase made so far was answered "Purchase successful".
AllSucceeded == Quiescent /\ \A c \in Calls : outcome[c] \in {"none", "ok"}

\* The purchases answered "Purchase successful".
OkCalls == {c \in Calls : outcome[c] = "ok"}

\* The price of the mask a request names (masks are never rewritten).
PriceOf(c) == Masks[req[c].mask_id].price

\* The sum of the prices of a set of purchases.
RECURSIVE SumPrices(_)
SumPrices(S) ==
    IF S = {} THEN 0
    ELSE LET c == CHOOSE x \in S : TRUE IN PriceOf(c) + SumPrices(S \ {c})

\* The sum of the balances of the users, and of the cash accounts.
RECURSIVE SumUsers(_, _)
SumUsers(u, S) ==
    IF S = {} THEN 0
    ELSE LET id == CHOOSE x \in S : TRUE IN u[id] + SumUsers(u, S \ {id})

RECURSIVE SumCash(_, _)
SumCash(k, S) ==
    IF S = {} THEN 0
    ELSE LET id == CHOOSE x \in S : TRUE IN k[id].cash_balance + SumCash(k, S \ {id})

\* The tables are as ingestion left them.
AsIngested == users = InitUsers /\ cash = InitCash /\ ledger = InitLedger

\* ------------------------------------------------------------------ claims

\* C1: when every purchase that was made has completed successfully, each
\* user's cash_balance is the starting balance minus the sum of the prices
\* of that user's purchases, whatever the interleaving (no lost debit).
C1_NoLostDebit ==
    AllSucceeded =>
        \A u \in DOMAIN users :
            users[u] = InitUsers[u] - SumPrices({c \in OkCalls : req[c].user_id = u})

\* C2: a purchase that fails after the user debit is rolled back whole, so
\* that no later read finds its debit: once purchases that ran one after the
\* other have all been answered, each user's cash_balance is the starting
\* balance minus the prices of that user's successful purchases alone.
\* (Stated for the purchases a statement of which the driver or the database
\* refused, with no storage call failing.)
C2_FailedPurchaseRolledBack ==
    (Quiescent /\ Sequential /\ \A c \in Calls : outcome[c] # "StorageError") =>
        \A u \in DOMAIN users :
            users[u] = InitUsers[u] - SumPrices({c \in OkCalls : req[c].user_id = u})

\* C3: in every reachable state every user's cash_balance and every pharmacy
\* cash account's cash_balance is >= 0.
C3_BalancesNonNegative ==
    /\ \A u \in DOMAIN users : users[u] >= 0
    /\ \A id \in DOMAIN cash : cash[id].cash_balance >= 0

\* C3 witness: a user has spent the whole balance (a purchase at exactly the
\* balance succeeded) and a further purchase of that user was rejected.
C3_Witness ==
    \E c \in Calls, d \in Calls :
        /\ outcome[c] = "ok" /\ outcome[d] = "InsufficientBalance"
        /\ req[c].user_id = req[d].user_id
        /\ users[req[c].user_id] = 0
        /\ \E id \in DOMAIN cash : cash[id].cash_balance > InitCash[1].cash_balance

\* Some parameter of request c names no row.  Users and masks are never
\* added to; cash accounts are, so an id absent now was absent when read, and
\* an id absent when read was absent at ingestion.
NamesNoRowNow(c) ==
    \/ req[c].user_id \notin DOMAIN users
    \/ req[c].mask_id \notin DOMAIN Masks
    \/ req[c].pharmacy_id \notin DOMAIN cash

NamedNoRowAtIngestion(c) ==
    \/ req[c].user_id \notin DOMAIN InitUsers
    \/ req[c].mask_id \notin DOMAIN Masks
    \/ req[c].pharmacy_id \notin DOMAIN InitCash

\* C4: a purchase one of whose ids names no row is answered NotFound (a failed
\* storage call aside), a purchase answered NotFound has such an id, and it
\* has executed no statement: while NotFound is the only answer given, the
\* tables are as they were.
C4_NotFoundRejectsUnchanged ==
    /\ \A c \in Calls :
        /\ outcome[c] = "NotFound" => (writes[c] = {} /\ NamedNoRowAtIngestion(c))
        /\ (pc[c] = "done" /\ NamesNoRowNow(c)) =>
               (outcome[c] \in {"NotFound", "StorageError"} /\ writes[c] = {})
    /\ (Quiescent /\ \A c \in Calls : outcome[c] \in {"none", "NotFound"}) => AsIngested

\* C4 witness: a purchase of an existing user at an existing cash account
\* naming a mask that does not exist was answered NotFound, and the tables
\* are as ingested.
C4_Witness ==
    \E c \in Calls :
        /\ outcome[c] = "NotFound"
        /\ req[c].user_id \in DOMAIN users
        /\ req[c].pharmacy_id \in DOMAIN cash
        /\ req[c].mask_id \notin DOMAIN Masks
        /\ AsIngested

\* The step by which request c leaves the checks of purchase_mask, the
\* storage call before them having succeeded.
Checked(c) == pc[c] = "get_mask" /\ pc'[c] # "get_mask" /\ outcome'[c] # "StorageError"

\* C5: a purchase whose rows all exist is answered InsufficientBalance exactly
\* when the balance it loaded is below the mask's price (a balance equal to
\* the price passes), and the step that rejects it changes no user, no cash
\* account and no ledger record, the request having executed no statement.
C5_InsufficientBalanceExact ==
    [][\A c \in Calls :
         Checked(c) =>
             /\ outcome'[c] = "InsufficientBalance" <=>
                    (/\ ~NotFound(loc[c].user, loc[c].pharmacy, GetMaskRow(req[c].mask_id))
                     /\ loc[c].user < PriceOf(c))
             /\ outcome'[c] = "InsufficientBalance" =>
                    (users' = users /\ cash' = cash /\ ledger' = ledger /\ writes'[c] = {})
             /\ (outcome'[c] = "none" /\ loc[c].user = users[req[c].user_id]) =>
                    users[req[c].user_id] >= PriceOf(c)]_vars

\* C5 witness: a user bought a mask priced at exactly the balance, and the
\* same purchase, made again with the balance now below the price, was
\* rejected with nothing but the first purchase written.
C5_Witness ==
    \E c \in Calls, d \in Calls :
        /\ outcome[c] = "ok" /\ InitUsers[req[c].user_id] = PriceOf(c)
        /\ outcome[d] = "InsufficientBalance" /\ req[d] = req[c] /\ c \in prior[d]
        /\ users[req[d].user_id] < PriceOf(d)
        /\ writes[d] = {}
        /\ Len(ledger) = Len(InitLedger) + 1

\* The cash-account rows of the pair (pharmacy, mask): the rows whose
\* sold_item is the mask and whose name is the pharmacy's, given as the id's
\* text or as the name of the account with that id.
PairAccounts(pharmacy_id, mask_id) ==
    {id \in DOMAIN cash :
        /\ cash[id].sold_item = mask_id
        /\ \/ cash[id].name = ToString(pharmacy_id)
           \/ pharmacy_id \in DOMAIN InitCash /\ cash[id].name = InitCash[pharmacy_id].name}

\* C6: after any sequence of successful purchases, every (pharmacy, mask) pair
\* has at most one cash-account row, and a purchased pair has one whose
\* balance is the sum of the prices of the purchases of that pair.
C6_CreditsPairAccount ==
    \A p \in CashIds, m \in DOMAIN Masks :
        LET bought == {c \in OkCalls : req[c].pharmacy_id = p /\ req[c].mask_id = m}
        IN  /\ Cardinality(PairAccounts(p, m)) <= 1
            /\ (AllSucceeded /\ Sequential /\ bought # {}) =>
                   \E id \in PairAccounts(p, m) : cash[id].cash_balance = SumPrices(bought)

\* C7: when every purchase made has succeeded, whatever their interleaving,
\* each ingested cash account has grown by the sum of the prices of the
\* purchases that credited it (those whose pharmacy_id and mask_id both are
\* its id), and no two rows stand for the same (name, sold_item) pair.
C7_NoLostCredit ==
    /\ AllSucceeded =>
           \A id \in DOMAIN InitCash :
               cash[id].cash_balance =
                   InitCash[id].cash_balance +
                   SumPrices({c \in OkCalls : req[c].pharmacy_id = id /\ req[c].mask_id = id})
    /\ \A a \in DOMAIN cash, b \in DOMAIN cash :
           (a # b /\ cash[a].sold_item # None) =>
               << cash[a].name, cash[a].sold_item >> # << cash[b].name, cash[b].sold_item >>

C9_CreditsMatchDebitsAndLedger ==
    (Quiescent /\ \A c \in Calls : outcome[c] # "StorageError") =>
        LET credited == SumCash(cash, DOMAIN cash) - SumCash(InitCash, DOMAIN InitCash)
            debited == SumUsers(InitUsers, DOMAIN InitUsers) - SumUsers(users, DOMAIN users)
            recorded == SumAmount(ledger) - SumAmount(InitLedger)
        IN  credited = debited /\ debited = recorded

\* The records of the ledger that purchases with the parameters r created.
RecordsOf(r) ==
    {i \in (Len(InitLedger) + 1)..Len(ledger) :
        /\ ledger[i].user_id = r.user_id
        /\ ledger[i].pharmacies = r.pharmacy_id
        /\ ledger[i].pharmacies_mask = r.mask_id}

\* C10: a purchase request whose three rows exist, made and then repeated
\* after the first was answered, the user's balance covering both, succeeds
\* both times and leaves two ledger records (no storage call failing, no
\* other debit starving either, and the two not dated with the same reading
\* of the clock).
C10_ReplaySucceedsAgain ==
    \A c \in Calls, d \in Calls :
        (/\ c \in prior[d] /\ req[d] = req[c] /\ pc[d] = "done"
         /\ req[c].user_id \in DOMAIN InitUsers
         /\ req[c].pharmacy_id \in DOMAIN InitCash
         /\ req[c].mask_id \in DOMAIN Masks
         /\ InitUsers[req[c].user_id] >= 2 * PriceOf(c)
         /\ {outcome[c], outcome[d]} \cap {"InsufficientBalance", "StorageError",
                                           "uix_users_purchase_history"} = {})
        => (/\ outcome[c] = "ok" /\ outcome[d] = "ok"
            /\ Cardinality(RecordsOf(req[c])) >= 2)

\* C11: every record a purchase created references an existing user, an
\* existing pharmacies row and an existing mask, and the pharmacies row it
\* references is a row of the pharmacy whose cash account the purchase
\* loaded by pharmacy_id.
C11_RecordReferencesLoadedPharmacy ==
    \A i \in (Len(InitLedger) + 1)..Len(ledger) :
        /\ ledger[i].user_id \in DOMAIN users
        /\ ledger[i].pharmacies \in DOMAIN Pharmacies
        /\ ledger[i].pharmacies_mask \in DOMAIN Masks
        /\ ledger[i].pharmacies \in DOMAIN cash
        /\ Pharmacies[ledger[i].pharmacies] = cash[ledger[i].pharmacies].name

\* ---- the opening-hours grammar, as the claims state it

\* A time of day in minutes.
Minutes(t) == CASE t = "08:00" -> 480 [] t = "12:00" -> 720 [] t = "17:00" -> 1020

\* One of the seven canonical abbreviations.
Canonical(token) == \E i \in 1..Len(days_map) : days_map[i] = token

\* The entry ends in <HH:MM> - <HH:MM> after a non-empty prefix.
HasShape(entry) ==
    /\ Len(entry) >= 4
    /\ entry[Len(entry) - 2] \in TimeTokens
    /\ entry[Len(entry) - 1] = "-"
    /\ entry[Len(entry)] \in TimeTokens

\* The parts of the day list of an entry that has the shape.
DayListOf(entry) == Split(SubSeq(entry, 1, Len(entry) - 3), ",")

\* A part is a canonical day, or a range between two canonical days.
ValidPart(part) ==
    \/ Len(part) = 1 /\ Canonical(part[1])
    \/ /\ Len(part) = 3 /\ part[2] = "-"
       /\ Canonical(part[1]) /\ Canonical(part[3])

\* The number of days a valid part expands to: the days of Mon..Sun from the
\* start of a range to its end, both included (none when the end precedes
\* the start).
ExpandedDays(part) ==
    IF Len(part) = 1 THEN 1
    ELSE IF Index(part[1]) <= Index(part[3]) THEN Index(part[3]) - Index(part[1]) + 1
    ELSE 0

RECURSIVE SumExpandedDays(_)
SumExpandedDays(parts) ==
    IF parts = << >> THEN 0 ELSE ExpandedDays(Head(parts)) + SumExpandedDays(Tail(parts))

\* A valid entry: the shape, a list of valid parts, and opening before closing.
ValidEntry(entry) ==
    /\ HasShape(entry)
    /\ \A i \in 1..Len(DayListOf(entry)) : ValidPart(DayListOf(entry)[i])
    /\ Minutes(entry[Len(entry) - 2]) < Minutes(entry[Len(entry)])

ValidExpression(text) ==
    \A i \in 1..Len(Split(text, "/")) : ValidEntry(Split(text, "/")[i])

RECURSIVE ExpectedCount(_)
ExpectedCount(entries) ==
    IF entries = << >> THEN 0
    ELSE SumExpandedDays(DayListOf(Head(entries))) + ExpectedCount(Tail(entries))

UnknownDayToken(entry) ==
    HasShape(entry) /\
        \E i \in 1..Len(DayListOf(entry)) :
            \E k \in 1..Len(DayListOf(entry)[i]) :
                DayListOf(entry)[i][k] # "-" /\ ~Canonical(DayListOf(entry)[i][k])

\* C15: when a segment lacks the <prefix> HH:MM - HH:MM shape, or a day
\* token, alone or as the endpoint of a range, is not canonical, the parser
\* raises and returns no rows.
C15_MalformedRaises ==
    (/\ parsed # NotParsed
     /\ \E i \in 1..Len(Split(openingHours, "/")) :
            \/ ~HasShape(Split(openingHours, "/")[i])
            \/ UnknownDayToken(Split(openingHours, "/")[i]))
    => (~parsed.returned /\ parsed.raised # "" /\ parsed.data = << >>)

\* ------------------------------------------------------ claims on the load

\* The names stored in a table.
NamesIn(rows) == {rows[k].name : k \in 1..Len(rows)}

\* A pharmacy document whose opening hours the parser raises on, or one of
\* whose mask lines the mask pattern does not match.
MalformedPharmacy(pharmacy) ==
    \/ parse_openingHours(pharmacy.openingHours).raised # ""
    \/ \E k \in 1..Len(pharmacy.masks) : MaskMatch(pharmacy.masks[k].name) = 0

\* A user document one of whose purchase histories names a mask the mask
\* pattern does not match.
MalformedUser(user) ==
    \E k \in 1..Len(user.purchaseHistories) :
        MaskMatch(user.purchaseHistories[k].maskName) = 0

\* The batch has a record with malformed text.
MalformedBatch ==
    \/ \E k \in 1..Len(docs.pharmacies_data) : MalformedPharmacy(docs.pharmacies_data[k])
    \/ \E k \in 1..Len(docs.users_data) : MalformedUser(docs.users_data[k])

\* main has returned or an exception has left it.
LoadEnded == run.phase \in {"done", "aborted"}

\* C12: when the batch has a record whose opening-hours or mask text is
\* malformed, the load does not end in the parser's error, and once it has
\* ended every pharmacy record with well-formed text and every user record
\* is stored.
C12_MalformedRecordFailsAlone ==
    (LoadEnded /\ MalformedBatch) =>
        /\ run.raised # "ValueError"
        /\ \A k \in 1..Len(docs.pharmacies_data) :
               ~MalformedPharmacy(docs.pharmacies_data[k]) =>
                   docs.pharmacies_data[k].name \in NamesIn(db.pharmacies_cash)
        /\ \A k \in 1..Len(docs.users_data) :
               docs.users_data[k].name \in NamesIn(db.users)

\* The stored rows of the five tables, without the serials.
RowsOfTables(tables) ==
    [t \in {"pharmacies", "pharmacies_cash", "pharmacies_mask", "users",
            "users_purchase_history"} |-> tables[t]]

\* C13: when the second load of the same documents has returned, the tables
\* hold the rows the first load left and no other.
C13_SecondLoadAddsNothing ==
    (run.n = NumLoads /\ run.phase = "done") =>
        RowsOfTables(db) = RowsOfTables(snapshot)

\* The loop over the user documents is at a document it has yet to take.
AtUser == run.phase = "users" /\ run.i <= Len(docs.users_data)

\* The row yielded for a purchase history carries its pharmacy, amount and
\* date, and the user's name.
RowOfEntry(row, user_name, purchase_history) ==
    /\ row.user_id = user_name
    /\ row.pharmacies = purchase_history.pharmacyName
    /\ row.trn_amount = purchase_history.transactionAmount
    /\ row.trn_date = strptime(purchase_history.transactionDate)

\* C16: the step that ingests a user document yields one row per entry of
\* purchaseHistories, in source order, when every maskName is well formed;
\* for an empty list it yields one placeholder row whose user, pharmacy and
\* mask fields are all null, and the load does not abort.
C16_OneRowPerEntryOrPlaceholder ==
    [][AtUser =>
          LET user == docs.users_data[run.i]
              entries == user.purchaseHistories
          IN  /\ (Len(entries) > 0 /\ ~MalformedUser(user)) =>
                     /\ Len(intents') = Len(entries)
                     /\ \A k \in 1..Len(entries) :
                            RowOfEntry(intents'[k], user.name, entries[k])
              /\ Len(entries) = 0 =>
                     /\ Len(intents') = 1
                     /\ intents'[1].user_id = NoneText
                     /\ intents'[1].pharmacies = NoneText
                     /\ intents'[1].pharmacies_mask = NoneMask
                     /\ run'.phase # "aborted"]_vars

====
